---- MODULE Spec2Model ----
(***************************************************************************)
(* A model of package whois (src/whois.go): the Client.Whois resolution    *)
(* and referral algorithm, rawQuery, getServer, the dialContext race       *)
(* between the dial goroutine and the context deadline, and InitWhois with *)
(* its sync.Once.                                                          *)
(*                                                                         *)
(* Queries are sequences of one-character strings, so that trimming,       *)
(* prefix tests and the search for "." and ":" are computed.  A response   *)
(* text is a sequence of lines; a line is a record with the marker token   *)
(* it starts with (tok), whether its value is a URL (url) and the value's  *)
(* ":"-separated fields.  Server names are strings.                        *)
(***************************************************************************)
EXTENDS Naturals, Integers, Sequences, FiniteSets, TLC

VARIABLES
    serverMapInstance,  \* package variable: "nil" or "inst"
    whoisServers,       \* the instance's extension -> server table
    rewriteServers,     \* the instance's server -> dial target table
    onceDone,           \* onceWhois: the done flag
    onceM,              \* onceWhois: the mutex holder, "free" or a caller
    loadState,          \* "none", "loading", "ok" or "failed"
    nConstruct,         \* how many times NewServerMap ran
    nLoad,              \* how many times LoadFromFile ran
    init,               \* InitWhois callers
    clients,            \* the Client objects
    call,               \* Whois callers
    learned,            \* extension -> <<host, port>> the discovering call then dialed
    crashed             \* the process died of an unrecovered panic

vars == <<serverMapInstance, whoisServers, rewriteServers, onceDone, onceM,
          loadState, nConstruct, nLoad, init, clients, call, learned, crashed>>

initVars == <<serverMapInstance, whoisServers, rewriteServers, onceDone, onceM,
              loadState, nConstruct, nLoad, init>>

whoisVars == <<clients, call, learned, crashed>>

----------------------------------------------------------------------------
(* Bounds and the finite universe of inputs *)

InitCallers == {"i1", "i2"}
Callers == {"t1"}

\* the goroutines that call Whois on one client at the same time
RaceCallers == {"t1", "t2"}
ClientIds == {"default", "c1"}

\* the clients whose setters are called
Configured == {"c1"}

defaultWhoisServer == "whois.iana.org"
defaultWhoisPort == "43"
arinServer == "whois.arin.net"
asnPrefix == <<"A", "S">>

EmptyMap == [x \in {} |-> ""]

Put(m, k, v) == [x \in (DOMAIN m) \cup {k} |-> IF x = k THEN v ELSE m[x]]

\* the queries callers pass: "a.xy", "b.xy", "xy", " a.zz. ", "as1", " ."
Queries ==
    { <<"a", ".", "x", "y">>,
      <<"b", ".", "x", "y">>,
      <<"x", "y">>,
      <<" ", "a", ".", "z", "z", ".", " ">>,
      <<"a", "s", "1">>,
      <<" ", ".">> }

\* the queries of the two goroutines that share a client: "a.xy", "xy"
FewQueries == { <<"a", ".", "x", "y">>, <<"x", "y">> }

\* the queries of the specification that starts with the process: "a.zz", whose
\* extension and servers the configuration file names, and "xy"
StartQueries == { <<"a", ".", "z", "z">>, <<"x", "y">> }

\* the optional servers argument
ServerArgs == { <<>>, <<"">>, <<"WHOIS.NIC.XY">> }

\* the longest query of the specification that classifies every short query
MaxQueryLen == 3

\* the characters of those queries
Alphabet == {" ", ".", "a", "s", "A", "S", "1"}

\* every query of at most MaxQueryLen characters
AllQueries == UNION { [1..n -> Alphabet] : n \in 0..MaxQueryLen }

\* the servers argument there: none, the ARIN server, a server rewritten to it
ArinServerArgs == { <<>>, <<"whois.arin.net">>, <<"WHOIS.NIC.XY">> }

\* the configuration files InitWhois is called with
ConfigFiles == {"servers.json", "missing.json"}

FileContent(f) ==
    IF f = "servers.json"
    THEN [ok |-> TRUE,
          whois |-> [x \in {<<"z", "z">>} |-> "whois.nic.zz"],
          rewrite |-> [x \in {"whois.nic.zz", defaultWhoisServer, arinServer, "whois.nic.xy"} |->
                         CASE x = "whois.nic.zz" -> "alt.nic.zz"
                           [] x = defaultWhoisServer -> "alt.iana.org"
                           [] x = arinServer -> "alt.arin.net"
                           [] OTHER -> arinServer]]
    ELSE [ok |-> FALSE, whois |-> EmptyMap, rewrite |-> EmptyMap]

Ln(tok, url, fields) == [tok |-> tok, url |-> url, fields |-> fields]

\* the response texts a peer may send before closing the connection
Responses ==
    { <<>>,
      << Ln("text", FALSE, <<"no match">>) >>,
      << Ln("refer: ", FALSE, <<"whois.reg.xy">>),
         Ln("whois: ", FALSE, <<"whois.nic.xy">>) >>,
      << Ln("Registrar WHOIS Server: ", TRUE, <<"whois.reg.xy", "4321">>) >>,
      << Ln("ReferralServer: ", FALSE, <<"whois.nic.xy", "4321">>) >>,
      << Ln("whois: ", FALSE, <<"">>) >> }

\* a response that names no server
PlainResponses == { << Ln("text", FALSE, <<"no match">>) >> }

FewResponses ==
    { << Ln("whois: ", FALSE, <<"whois.nic.xy">>) >>,
      << Ln("Registrar WHOIS Server: ", FALSE, <<"whois.reg.xy">>) >>,
      << Ln("text", FALSE, <<"no match">>) >> }

----------------------------------------------------------------------------
(* Strings *)

Spaces == {" "}

RECURSIVE TrimLeft(_, _)
TrimLeft(s, cutset) ==
    IF s # <<>> /\ Head(s) \in cutset THEN TrimLeft(Tail(s), cutset) ELSE s

RECURSIVE TrimRight(_, _)
TrimRight(s, cutset) ==
    IF s # <<>> /\ s[Len(s)] \in cutset
    THEN TrimRight(SubSeq(s, 1, Len(s) - 1), cutset)
    ELSE s

\* strings.Trim(s, cutset)
Trim(s, cutset) == TrimRight(TrimLeft(s, cutset), cutset)

\* strings.TrimSpace
TrimSpace(s) == Trim(s, Spaces)

\* strings.Contains(s, ch) for a one-character ch
Contains(s, ch) == \E i \in 1..Len(s) : s[i] = ch

UpperCh(ch) ==
    CASE ch = "a" -> "A" [] ch = "b" -> "B" [] ch = "s" -> "S"
      [] ch = "x" -> "X" [] ch = "y" -> "Y" [] ch = "z" -> "Z"
      [] OTHER -> ch

\* strings.ToUpper
ToUpper(s) == [i \in 1..Len(s) |-> UpperCh(s[i])]

\* strings.HasPrefix
HasPrefix(s, p) == Len(s) >= Len(p) /\ SubSeq(s, 1, Len(p)) = p

\* strings.ToLower on the server names of ServerArgs
ToLowerServer(s) == IF s = "WHOIS.NIC.XY" THEN "whois.nic.xy" ELSE s

Digits == {"0", "1", "2", "3", "4", "5", "6", "7", "8", "9"}

\* IsASN: the query is a number, optionally carrying the ASN prefix in any case
IsASN(s) ==
    LET u == ToUpper(s)
        n == IF HasPrefix(u, asnPrefix) THEN SubSeq(u, Len(asnPrefix) + 1, Len(u)) ELSE u
    IN  n # <<>> /\ \A i \in 1..Len(n) : n[i] \in Digits

\* getExtension: the final label of the query
getExtension(domain) ==
    IF Contains(domain, ".")
    THEN LET i == CHOOSE k \in 1..Len(domain) :
                     domain[k] = "." /\ \A j \in (k + 1)..Len(domain) : domain[j] # "."
         IN  SubSeq(domain, i + 1, Len(domain))
    ELSE domain

\* extractHostname: of a URL only the host name is kept
extractHostname(ln) == IF ln.url THEN <<ln.fields[1]>> ELSE ln.fields

tokens == << "Registrar WHOIS Server: ", "whois: ", "ReferralServer: ", "refer: " >>

\* strings.Index(data, token): the first line carrying the token, 0 for none
IndexOf(data, token) ==
    IF \E i \in 1..Len(data) : data[i].tok = token
    THEN CHOOSE i \in 1..Len(data) :
            data[i].tok = token /\ \A j \in 1..(i - 1) : data[j].tok # token
    ELSE 0

\* getServer returns <<server, port>> from whois data
getServer(data) ==
    LET found == {k \in 1..Len(tokens) : IndexOf(data, tokens[k]) # 0}
    IN  IF found = {}
        THEN <<"", "">>
        ELSE LET k == CHOOSE x \in found : \A y \in found : x <= y
                 server == extractHostname(data[IndexOf(data, tokens[k])])
             IN  IF Len(server) > 1
                 THEN <<server[1], server[2]>>
                 ELSE <<server[1], defaultWhoisPort>>

blankLine == Ln("", FALSE, <<>>)

\* a token without the space that ends it
TrimTok(tok) ==
    CASE tok = "Registrar WHOIS Server: " -> "Registrar WHOIS Server:"
      [] tok = "whois: " -> "whois:"
      [] tok = "ReferralServer: " -> "ReferralServer:"
      [] tok = "refer: " -> "refer:"
      [] OTHER -> tok

\* the white space that ends the last line of a text goes: a line whose value
\* is empty loses the space that ends its token
TrimLastLine(text) ==
    IF text # <<>> /\ text[Len(text)].fields \in {<<>>, <<"">>}
    THEN [text EXCEPT ![Len(text)].tok = TrimTok(@)]
    ELSE text

\* strings.TrimSpace on a text: blank lines at either end go, and so does the
\* white space that ends the last line left (no line starts with white space)
TrimText(text) == TrimLastLine(Trim(text, {blankLine}))

\* "\n\n% Query time: %d msec\n% WHEN: %s\n" after the result: a blank line and
\* the two lines of the footer
statsFooter ==
    << blankLine, Ln("% Query time: ", FALSE, <<"msec">>), Ln("% WHEN: ", FALSE, <<"start">>) >>

----------------------------------------------------------------------------
(* The Server Directory (type serverMap) *)

\* NewServerMap: an empty directory
NewServerMap == [whois |-> EmptyMap, rewrite |-> EmptyMap]

\* GetWhoisServer(ext): <<server, found>>
GetWhoisServer(ext) ==
    IF ext \in DOMAIN whoisServers THEN <<whoisServers[ext], TRUE>> ELSE <<"", FALSE>>

\* SetWhoisServer(ext, server): insert or overwrite
SetWhoisServer(ext, server) == Put(whoisServers, ext, server)

\* GetRewriteServer(server): <<alternate, found>>
GetRewriteServer(server) ==
    IF server \in DOMAIN rewriteServers THEN <<rewriteServers[server], TRUE>> ELSE <<"", FALSE>>

\* LoadFromFile: both tables are populated from the file, or none is on failure
LoadFromFile(f) ==
    LET c == FileContent(f)
    IN  IF c.ok
        THEN [ok |-> TRUE,
              whois |-> [x \in (DOMAIN whoisServers) \cup (DOMAIN c.whois) |->
                           IF x \in DOMAIN c.whois THEN c.whois[x] ELSE whoisServers[x]],
              rewrite |-> [x \in (DOMAIN rewriteServers) \cup (DOMAIN c.rewrite) |->
                             IF x \in DOMAIN c.rewrite THEN c.rewrite[x] ELSE rewriteServers[x]]]
        ELSE [ok |-> FALSE, whois |-> whoisServers, rewrite |-> rewriteServers]

\* a method of *serverMap called on the nil pointer dereferences nil and panics
NilMap(c) == clients[c].serverMap = "nil"

----------------------------------------------------------------------------
(* InitWhois: onceWhois.Do(func() { ... }) *)

IdleInit == [pc |-> "idle", file |-> "", outcome |-> "none"]

\* InitWhois(configFile) is called; Do reads the done flag on its fast path
InitWhoisCall(i, f) ==
    /\ ~crashed
    /\ init[i].pc = "idle" /\ init[i].outcome = "none"
    /\ init' = [init EXCEPT ![i] =
                  IF onceDone THEN [pc |-> "idle", file |-> "", outcome |-> "returned"]
                  ELSE [pc |-> "lock", file |-> f, outcome |-> "none"]]
    /\ UNCHANGED <<serverMapInstance, whoisServers, rewriteServers, onceDone, onceM,
                   loadState, nConstruct, nLoad>>
    /\ UNCHANGED whoisVars

\* OnceLock without the second read of the done flag
OnceLockNoRecheck(i) ==
    /\ ~crashed
    /\ init[i].pc = "lock" /\ onceM = "free"
    /\ init' = [init EXCEPT ![i].pc = "construct"]
    /\ onceM' = i
    /\ UNCHANGED <<serverMapInstance, whoisServers, rewriteServers, onceDone,
                   loadState, nConstruct, nLoad>>
    /\ UNCHANGED whoisVars

\* doSlow: the mutex is taken and the done flag is read again under it
OnceLock(i) ==
    /\ ~crashed
    /\ init[i].pc = "lock" /\ onceM = "free"
    /\ IF onceDone
       THEN /\ init' = [init EXCEPT ![i] = [pc |-> "idle", file |-> "", outcome |-> "returned"]]
            /\ UNCHANGED onceM
       ELSE /\ init' = [init EXCEPT ![i].pc = "construct"]
            /\ onceM' = i
    /\ UNCHANGED <<serverMapInstance, whoisServers, rewriteServers, onceDone,
                   loadState, nConstruct, nLoad>>
    /\ UNCHANGED whoisVars

\* serverMapInstance = NewServerMap()
InitConstruct(i) ==
    /\ ~crashed
    /\ init[i].pc = "construct"
    /\ serverMapInstance' = "inst"
    /\ whoisServers' = NewServerMap.whois
    /\ rewriteServers' = NewServerMap.rewrite
    /\ nConstruct' = nConstruct + 1
    /\ loadState' = "loading"
    /\ init' = [init EXCEPT ![i].pc = "load"]
    /\ UNCHANGED <<onceDone, onceM, nLoad>>
    /\ UNCHANGED whoisVars

\* err := serverMapInstance.LoadFromFile(configFile); on an error panic(err),
\* and the deferred done.Store and Unlock of Once run while the panic unwinds
InitLoad(i) ==
    /\ ~crashed
    /\ init[i].pc = "load"
    /\ LET r == LoadFromFile(init[i].file)
       IN  /\ whoisServers' = r.whois
           /\ rewriteServers' = r.rewrite
           /\ nLoad' = nLoad + 1
           /\ IF r.ok
              THEN /\ loadState' = "ok"
                   /\ init' = [init EXCEPT ![i].pc = "finish"]
                   /\ UNCHANGED <<onceDone, onceM>>
              ELSE /\ loadState' = "failed"
                   /\ onceDone' = TRUE
                   /\ onceM' = "free"
                   /\ init' = [init EXCEPT ![i] = [pc |-> "panicked", file |-> "", outcome |-> "none"]]
    /\ UNCHANGED <<serverMapInstance, nConstruct>>
    /\ UNCHANGED whoisVars

\* f returned: done.Store(1), Unlock, and InitWhois returns
OnceFinish(i) ==
    /\ ~crashed
    /\ init[i].pc = "finish"
    /\ onceDone' = TRUE
    /\ onceM' = "free"
    /\ init' = [init EXCEPT ![i] = [pc |-> "idle", file |-> "", outcome |-> "returned"]]
    /\ UNCHANGED <<serverMapInstance, whoisServers, rewriteServers, loadState, nConstruct, nLoad>>
    /\ UNCHANGED whoisVars

\* the panic is recovered by a deferred function of the caller
InitRecover(i) ==
    /\ ~crashed
    /\ init[i].pc = "panicked"
    /\ init' = [init EXCEPT ![i] = [pc |-> "idle", file |-> "", outcome |-> "panicked"]]
    /\ UNCHANGED <<serverMapInstance, whoisServers, rewriteServers, onceDone, onceM,
                   loadState, nConstruct, nLoad>>
    /\ UNCHANGED whoisVars

----------------------------------------------------------------------------
(* Clients *)

\* NewClient: the serverMap field is the value of serverMapInstance now
NewClient(c) ==
    /\ ~crashed
    /\ ~clients[c].made
    /\ clients' = [clients EXCEPT ![c] =
                     [made |-> TRUE, serverMap |-> serverMapInstance,
                      disableStats |-> FALSE, disableReferral |-> FALSE]]
    /\ UNCHANGED <<call, learned, crashed>>
    /\ UNCHANGED initVars

SetDisableStats(c, disabled) ==
    /\ ~crashed
    /\ clients[c].made
    /\ clients' = [clients EXCEPT ![c].disableStats = disabled]
    /\ UNCHANGED <<call, learned, crashed>>
    /\ UNCHANGED initVars

SetDisableReferral(c, disabled) ==
    /\ ~crashed
    /\ clients[c].made
    /\ clients' = [clients EXCEPT ![c].disableReferral = disabled]
    /\ UNCHANGED <<call, learned, crashed>>
    /\ UNCHANGED initVars

----------------------------------------------------------------------------
(* Client.Whois and rawQuery *)

IdleCall ==
    [pc |-> "idle", client |-> "", query |-> <<>>, servers |-> <<>>, domain |-> <<>>,
     ext |-> <<>>, path |-> "none", stage |-> "none", server |-> "", port |-> "",
     g |-> "none", ch |-> "empty", ctxDone |-> FALSE, first |-> "none", rres |-> <<>>, rerr |-> "nil",
     primary |-> <<>>, result |-> <<>>, err |-> "nil", refErr |-> "none", sent |-> <<>>,
     nGet |-> 0, nSet |-> 0, nRewrite |-> 0, wrote |-> {}, arg |-> <<>>,
     outcome |-> "none"]

\* domain = strings.Trim(strings.TrimSpace(domain), ".")
Normalize(query) == Trim(TrimSpace(query), {"."})

\* the ASN prefix is put in front of an ASN that does not carry it
Canonical(domain, isASN) ==
    IF isASN /\ ~HasPrefix(ToUpper(domain), asnPrefix) THEN asnPrefix \o domain ELSE domain

\* IsBareLabel with the test for a dot inverted
IsBareLabelDotted(domain, isASN) ==
    Contains(domain, ".") /\ ~Contains(domain, ":") /\ ~isASN

\* the query goes straight to the root server
IsBareLabel(domain, isASN) ==
    ~Contains(domain, ".") /\ ~Contains(domain, ":") /\ ~isASN

\* ResolveServer with the directory lookup left out: discovery every time
ResolveServerNoCache(c, domain, servers) ==
    IF Len(servers) > 0 /\ servers[1] # ""
    THEN [path |-> "override", server |-> ToLowerServer(servers[1]),
          port |-> defaultWhoisPort, ext |-> <<>>, nGet |-> 0]
    ELSE IF NilMap(c)
         THEN [path |-> "panic", server |-> "", port |-> "",
               ext |-> getExtension(domain), nGet |-> 1]
         ELSE [path |-> "discover", server |-> defaultWhoisServer,
               port |-> defaultWhoisPort, ext |-> getExtension(domain), nGet |-> 1]

\* ResolveServer with the directory consulted before the override
ResolveServerCacheFirst(c, domain, servers) ==
    LET ext == getExtension(domain)
    IN  IF NilMap(c)
        THEN [path |-> "panic", server |-> "", port |-> "", ext |-> ext, nGet |-> 1]
        ELSE IF GetWhoisServer(ext)[2]
        THEN [path |-> "cached", server |-> GetWhoisServer(ext)[1],
              port |-> defaultWhoisPort, ext |-> ext, nGet |-> 1]
        ELSE IF Len(servers) > 0 /\ servers[1] # ""
        THEN [path |-> "override", server |-> ToLowerServer(servers[1]),
              port |-> defaultWhoisPort, ext |-> ext, nGet |-> 1]
        ELSE [path |-> "discover", server |-> defaultWhoisServer,
              port |-> defaultWhoisPort, ext |-> ext, nGet |-> 1]

\* server resolution: the override, then the directory, then live discovery
ResolveServer(c, domain, servers) ==
    IF Len(servers) > 0 /\ servers[1] # ""
    THEN [path |-> "override", server |-> ToLowerServer(servers[1]),
          port |-> defaultWhoisPort, ext |-> <<>>, nGet |-> 0]
    ELSE LET ext == getExtension(domain)
         IN  IF NilMap(c)
             THEN [path |-> "panic", server |-> "", port |-> "", ext |-> ext, nGet |-> 1]
             ELSE IF GetWhoisServer(ext)[2]
                  THEN [path |-> "cached", server |-> GetWhoisServer(ext)[1],
                        port |-> defaultWhoisPort, ext |-> ext, nGet |-> 1]
                  ELSE [path |-> "discover", server |-> defaultWhoisServer,
                        port |-> defaultWhoisPort, ext |-> ext, nGet |-> 1]

\* the server rawQuery dials: the rewrite table's substitute, if any
DialTarget(server) ==
    IF GetRewriteServer(server)[2] THEN GetRewriteServer(server)[1] ELSE server

\* QueryLine with the rewrite table consulted first: the server dialed decides
QueryLineAfterRewrite(domain, server) ==
    IF DialTarget(server) = arinServer
    THEN IF IsASN(domain)
         THEN <<"a", " ", "+", " ">> \o domain
         ELSE <<"n", " ", "+", " ">> \o domain
    ELSE domain

\* the line rawQuery writes: whois.arin.net takes "a + " or "n + " in front
QueryLine(domain, server) ==
    IF server = arinServer
    THEN IF IsASN(domain)
         THEN <<"a", " ", "+", " ">> \o domain
         ELSE <<"n", " ", "+", " ">> \o domain
    ELSE domain

\* c.rawQuery(domain, server, port) is called: the call record with the
\* arguments, before the first statement of rawQuery
CallRawQuery(r, stage, domain, server, port) ==
    [r EXCEPT !.pc = "rawQuery", !.stage = stage, !.arg = <<domain, server, port>>]

\* rawQuery returns: the deferred cancel and Close have run
RawQueryReturn(r, text, err) ==
    [r EXCEPT !.pc = "ret", !.ctxDone = FALSE, !.rres = text, !.rerr = err]

\* Whois returns: the deferred function trims the result and appends the footer
Return(r, result, err) ==
    LET trimmed == TrimText(result)
        out == IF trimmed # <<>> /\ ~clients[r.client].disableStats
               THEN trimmed \o statsFooter
               ELSE trimmed
    IN  [r EXCEPT !.pc = "done", !.stage = "none", !.rres = <<>>, !.rerr = "nil",
                  !.result = out, !.err = err, !.outcome = "returned"]

\* Whois(domain, servers...) from its first line to its first call of rawQuery,
\* the lookup c.serverMap.GetWhoisServer(ext) of line 153 included
WhoisCall(t, c, q, srv) ==
    /\ ~crashed
    /\ call[t].pc = "idle"
    /\ clients[c].made
    /\ LET base == [call[t] EXCEPT !.client = c, !.query = q, !.servers = srv]
           n == Normalize(q)
           isASN == IsASN(n)
           domain == Canonical(n, isASN)
           r == ResolveServer(c, domain, srv)
           b == [base EXCEPT !.domain = domain]
           rb == [b EXCEPT !.path = r.path, !.ext = r.ext, !.nGet = r.nGet,
                           !.server = r.server, !.port = r.port]
       IN  call' = [call EXCEPT ![t] =
             IF n = <<>>
             THEN Return([base EXCEPT !.path = "empty"], <<>>, "ErrDomainEmpty")
             ELSE IF IsBareLabel(domain, isASN)
             THEN CallRawQuery([b EXCEPT !.path = "bare"], "bare", domain,
                                defaultWhoisServer, defaultWhoisPort)
             ELSE IF r.path = "panic"
             THEN [rb EXCEPT !.pc = "panicked"]
             ELSE IF r.path = "discover"
             THEN CallRawQuery(rb, "discover", r.ext, defaultWhoisServer, defaultWhoisPort)
             ELSE CallRawQuery(rb, "primary", domain, r.server, r.port)]
    /\ UNCHANGED <<clients, learned, crashed>>
    /\ UNCHANGED initVars

\* line 144: return c.rawQuery(domain, defaultWhoisServer, defaultWhoisPort)
AfterBare(t) ==
    /\ ~crashed
    /\ call[t].pc = "ret" /\ call[t].stage = "bare"
    /\ call' = [call EXCEPT ![t] = Return(call[t], call[t].rres, call[t].rerr)]
    /\ UNCHANGED <<clients, learned, crashed>>
    /\ UNCHANGED initVars

\* AfterDiscover with the server memoized before it is tested for ""
AfterDiscoverMemoizeFirst(t) ==
    /\ ~crashed
    /\ call[t].pc = "ret" /\ call[t].stage = "discover"
    /\ LET r == call[t]
           sp == getServer(r.rres)
       IN  IF r.rerr # "nil"
           THEN /\ call' = [call EXCEPT ![t] = Return(r, <<>>, "query for whois server failed")]
                /\ UNCHANGED <<whoisServers, learned>>
           ELSE IF sp[1] = ""
           THEN /\ whoisServers' = SetWhoisServer(r.ext, sp[1])
                /\ call' = [call EXCEPT ![t] = Return(r, <<>>, "ErrWhoisServerNotFound")]
                /\ UNCHANGED learned
           ELSE /\ whoisServers' = SetWhoisServer(r.ext, sp[1])
                /\ UNCHANGED learned
                /\ call' = [call EXCEPT ![t] =
                     CallRawQuery([r EXCEPT !.server = sp[1], !.port = sp[2],
                                             !.nSet = @ + 1, !.rres = <<>>],
                                   "primary", r.domain, sp[1], sp[2])]
    /\ UNCHANGED <<serverMapInstance, rewriteServers, onceDone, onceM, loadState,
                   nConstruct, nLoad, init, clients, crashed>>

\* lines 158-168: the discovery response is parsed and the server memoized
AfterDiscover(t) ==
    /\ ~crashed
    /\ call[t].pc = "ret" /\ call[t].stage = "discover"
    /\ LET r == call[t]
           sp == getServer(r.rres)
       IN  IF r.rerr # "nil"
           THEN /\ call' = [call EXCEPT ![t] = Return(r, <<>>, "query for whois server failed")]
                /\ UNCHANGED <<whoisServers, learned>>
           ELSE IF sp[1] = ""
           THEN /\ call' = [call EXCEPT ![t] = Return(r, <<>>, "ErrWhoisServerNotFound")]
                /\ UNCHANGED <<whoisServers, learned>>
           ELSE /\ whoisServers' = SetWhoisServer(r.ext, sp[1])
                /\ UNCHANGED learned
                /\ call' = [call EXCEPT ![t] =
                     CallRawQuery([r EXCEPT !.server = sp[1], !.port = sp[2],
                                             !.nSet = @ + 1, !.rres = <<>>],
                                   "primary", r.domain, sp[1], sp[2])]
    /\ UNCHANGED <<serverMapInstance, rewriteServers, onceDone, onceM, loadState,
                   nConstruct, nLoad, init, clients, crashed>>

\* ReferralServer without the test of c.disableReferral
ReferralServerIgnoresDisable(r) ==
    LET ref == getServer(r.rres)
    IN  IF r.rerr # "nil" \/ ref[1] = "" \/ ref[1] = r.server
        THEN <<"", "">>
        ELSE ref

\* the server the referral chase queries next, "" for none
ReferralServer(r) ==
    LET ref == getServer(r.rres)
    IN  IF r.rerr # "nil" \/ clients[r.client].disableReferral
           \/ ref[1] = "" \/ ref[1] = r.server
        THEN <<"", "">>
        ELSE ref

\* lines 171-185: the primary result, and the call of the referral query
AfterPrimary(t) ==
    /\ ~crashed
    /\ call[t].pc = "ret" /\ call[t].stage = "primary"
    /\ LET r == call[t]
           ref == ReferralServer(r)
           rr == [r EXCEPT !.primary = r.rres, !.result = r.rres, !.err = r.rerr,
                          !.rres = <<>>, !.rerr = "nil"]
       IN  call' = [call EXCEPT ![t] =
             IF ref[1] = ""
             THEN Return(rr, r.rres, r.rerr)
             ELSE CallRawQuery(rr, "referral", r.domain, ref[1], ref[2])]
    /\ UNCHANGED <<clients, learned, crashed>>
    /\ UNCHANGED initVars

\* AfterReferral with the referral response parsed for a further referral
AfterReferralMultiHop(t) ==
    /\ ~crashed
    /\ call[t].pc = "ret" /\ call[t].stage = "referral"
    /\ LET r == call[t]
           result == IF r.rerr = "nil" THEN r.result \o r.rres ELSE r.result
           ref == getServer(r.rres)
       IN  call' = [call EXCEPT ![t] =
             IF r.rerr = "nil" /\ ref[1] # "" /\ ref[1] # r.sent[Len(r.sent)].server
             THEN CallRawQuery([r EXCEPT !.result = result], "referral", r.domain,
                                ref[1], ref[2])
             ELSE Return([r EXCEPT !.refErr = r.rerr], result, r.rerr)]
    /\ UNCHANGED <<clients, learned, crashed>>
    /\ UNCHANGED initVars

\* lines 185-190: data, err := c.rawQuery(...) assigns the result parameter err
AfterReferral(t) ==
    /\ ~crashed
    /\ call[t].pc = "ret" /\ call[t].stage = "referral"
    /\ LET r == call[t]
           result == IF r.rerr = "nil" THEN r.result \o r.rres ELSE r.result
       IN  call' = [call EXCEPT ![t] = Return([r EXCEPT !.refErr = r.rerr], result, r.rerr)]
    /\ UNCHANGED <<clients, learned, crashed>>
    /\ UNCHANGED initVars

----------------------------------------------------------------------------
(* dialContext, and the rest of rawQuery *)

\* rawQuery from its first statement to the start of the dial goroutine:
\* c.elapsed = 0 writes a field of the Client, the line is formed, the rewrite
\* table is read (a nil directory panics there; nRewrite counts the calls of
\* GetRewriteServer at line 205), the context and the channel are made
RawQueryEnter(t) ==
    /\ ~crashed
    /\ call[t].pc = "rawQuery"
    /\ LET r == call[t]
           domain == r.arg[1]
           server == r.arg[2]
           port == r.arg[3]
           addr == <<DialTarget(server), port>>
       IN  IF NilMap(r.client)
           THEN /\ call' = [call EXCEPT ![t] =
                              [r EXCEPT !.pc = "panicked", !.arg = <<>>,
                                        !.nRewrite = @ + 1,
                                        !.wrote = @ \cup {"elapsed"}]]
                /\ UNCHANGED learned
           ELSE /\ call' = [call EXCEPT ![t] =
                              [r EXCEPT !.pc = "select", !.arg = <<>>, !.g = "dialing",
                                        !.ch = "empty", !.ctxDone = FALSE, !.first = "none",
                                        !.nRewrite = @ + 1,
                                        !.wrote = @ \cup {"elapsed"},
                                        !.sent = Append(@, [stage |-> r.stage, server |-> server,
                                                            port |-> port,
                                                            line |-> QueryLine(domain, server),
                                                            addr |-> addr])]]
                /\ learned' = IF r.stage = "primary" /\ r.path = "discover"
                              THEN Put(learned, r.ext, addr)
                              ELSE learned
    /\ UNCHANGED <<clients, crashed>>
    /\ UNCHANGED initVars

\* the goroutine: dialer.Dial returns a connection or an error (dialErr = err)
DialReturn(t, ok) ==
    /\ ~crashed
    /\ call[t].g = "dialing"
    /\ call' = [call EXCEPT ![t].g = IF ok THEN "sendConn" ELSE "sendNil",
                            ![t].first = IF @ = "none" /\ call[t].pc = "select"
                                         THEN "dial" ELSE @]
    /\ UNCHANGED <<clients, learned, crashed>>
    /\ UNCHANGED initVars

\* the goroutine stands at its send statement
Sending(r) == r.g \in {"sendConn", "sendNil"}

\* a send on an unbuffered channel: it proceeds only while dialContext receives
CanSendUnbuffered(r) == r.ch = "empty" /\ r.pc = "select"

\* ch := make(chan net.Conn, 1): a send proceeds while the one slot is free
CanSend(r) == r.ch = "empty"

\* DialSend, with a goroutine that closes the connection it made when nobody
\* is left to receive it
DialSendCloseLate(t) ==
    /\ ~crashed
    /\ Sending(call[t]) /\ CanSend(call[t])
    /\ call' = [call EXCEPT ![t].g = "done",
                            ![t].ch = IF call[t].pc # "select" THEN "empty"
                                      ELSE IF call[t].g = "sendConn" THEN "conn" ELSE "nil"]
    /\ UNCHANGED <<clients, learned, crashed>>
    /\ UNCHANGED initVars

\* the goroutine: ch <- conn, or ch <- nil, and it ends; a connection sent after
\* dialContext returned stays in the channel
DialSend(t) ==
    /\ ~crashed
    /\ Sending(call[t]) /\ CanSend(call[t])
    /\ call' = [call EXCEPT ![t].g = "done",
                            ![t].ch = IF call[t].g = "sendConn" THEN "conn" ELSE "nil"]
    /\ UNCHANGED <<clients, learned, crashed>>
    /\ UNCHANGED initVars

\* the deadline of the query's context passes, at any point between
\* context.WithTimeout and the deferred cancel
CtxFire(t) ==
    /\ ~crashed
    /\ call[t].pc \in {"select", "write", "read"}
    /\ ~call[t].ctxDone
    /\ call' = [call EXCEPT ![t].ctxDone = TRUE,
                            ![t].first = IF @ = "none" /\ call[t].pc = "select"
                                         THEN "ctx" ELSE @]
    /\ UNCHANGED <<clients, learned, crashed>>
    /\ UNCHANGED initVars

\* the cases of the select statement that can proceed
ReadyCases(r) ==
    (IF r.ch # "empty" THEN {"recv"} ELSE {}) \cup (IF r.ctxDone THEN {"done"} ELSE {})

\* SelectResult with dialErr dropped: return conn, nil
SelectResultNoDialErr(r, case) ==
    IF case = "recv"
    THEN <<IF r.ch = "conn" THEN "conn" ELSE "nil", "nil">>
    ELSE <<"nil", "connect failed: context deadline exceeded">>

\* dialContext returns by the case taken: <<conn, err>>
SelectResult(r, case) ==
    IF case = "recv"
    THEN IF r.ch = "conn" THEN <<"conn", "nil">> ELSE <<"nil", "connect failed: dial error">>
    ELSE <<"nil", "connect failed: context deadline exceeded">>

\* select: one of the cases that can proceed is taken, and rawQuery goes on
Select(t, case) ==
    /\ ~crashed
    /\ call[t].pc = "select"
    /\ case \in ReadyCases(call[t])
    /\ LET r == call[t]
           res == SelectResult(r, case)
           rr == [r EXCEPT !.ch = IF case = "recv" THEN "empty" ELSE @,
                           !.first = "none"]
       IN  call' = [call EXCEPT ![t] =
              IF res[2] = "nil"
              THEN [rr EXCEPT !.pc = "write", !.g = "none"]
              ELSE RawQueryReturn(rr, <<>>, res[2])]
           /\ UNCHANGED <<clients, learned, crashed>>
    /\ UNCHANGED initVars

\* conn.Write([]byte(domain + "\r\n"))
Write(t, ok) ==
    /\ ~crashed
    /\ call[t].pc = "write"
    /\ call' = [call EXCEPT ![t] =
          IF ok THEN [call[t] EXCEPT !.pc = "read"]
          ELSE RawQueryReturn(call[t], <<>>, "send failed")]
    /\ UNCHANGED <<clients, learned, crashed>>
    /\ UNCHANGED initVars

\* io.ReadAll(conn) returns: the peer closed after sending text
ReadAll(t, text) ==
    /\ ~crashed
    /\ call[t].pc = "read"
    /\ call' = [call EXCEPT ![t] = RawQueryReturn(call[t], text, "nil")]
    /\ UNCHANGED <<clients, learned, crashed>>
    /\ UNCHANGED initVars

\* io.ReadAll(conn) returns an error: the connection broke
ReadError(t) ==
    /\ ~crashed
    /\ call[t].pc = "read"
    /\ call' = [call EXCEPT ![t] = RawQueryReturn(call[t], <<>>, "read failed")]
    /\ UNCHANGED <<clients, learned, crashed>>
    /\ UNCHANGED initVars

\* the caller is done with what Whois returned
Drop(t) ==
    /\ ~crashed
    /\ call[t].pc = "done"
    /\ call' = [call EXCEPT ![t] = [IdleCall EXCEPT !.g = call[t].g, !.ch = call[t].ch]]
    /\ UNCHANGED <<clients, learned, crashed>>
    /\ UNCHANGED initVars

\* the nil dereference is recovered by a deferred function of the caller
WhoisRecover(t) ==
    /\ ~crashed
    /\ call[t].pc = "panicked"
    /\ call' = [call EXCEPT ![t].pc = "done", ![t].outcome = "panicked"]
    /\ UNCHANGED <<clients, learned, crashed>>
    /\ UNCHANGED initVars

\* nothing recovers the panic: the process exits
Crash ==
    /\ ~crashed
    /\ \/ \E i \in InitCallers : init[i].pc = "panicked"
       \/ \E t \in Callers : call[t].pc = "panicked"
    /\ crashed' = TRUE
    /\ UNCHANGED <<clients, call, learned>>
    /\ UNCHANGED initVars

----------------------------------------------------------------------------
(* Specifications *)

\* the process has started: package initialization built DefaultClient while
\* serverMapInstance still had its zero value
Init ==
    /\ serverMapInstance = "nil"
    /\ whoisServers = EmptyMap
    /\ rewriteServers = EmptyMap
    /\ onceDone = FALSE
    /\ onceM = "free"
    /\ loadState = "none"
    /\ nConstruct = 0
    /\ nLoad = 0
    /\ init = [i \in InitCallers |-> IdleInit]
    /\ clients = [c \in ClientIds |->
                    [made |-> c = "default", serverMap |-> "nil",
                     disableStats |-> FALSE, disableReferral |-> FALSE]]
    /\ call = [t \in Callers |-> IdleCall]
    /\ learned = EmptyMap
    /\ crashed = FALSE

InitNext ==
    \/ \E i \in InitCallers, f \in ConfigFiles : InitWhoisCall(i, f)
    \/ \E i \in InitCallers : OnceLock(i)
    \/ \E i \in InitCallers : InitConstruct(i)
    \/ \E i \in InitCallers : InitLoad(i)
    \/ \E i \in InitCallers : OnceFinish(i)
    \/ \E i \in InitCallers : InitRecover(i)

ClientNext ==
    \/ \E c \in ClientIds : NewClient(c)
    \/ \E c \in Configured, b \in BOOLEAN : SetDisableReferral(c, b)
    \/ \E c \in Configured, b \in BOOLEAN : SetDisableStats(c, b)

WhoisNext(queries, serverArgs) ==
    \/ \E t \in Callers :
          /\ call[t].pc = "idle"
          /\ \E c \in ClientIds, q \in queries, srv \in serverArgs : WhoisCall(t, c, q, srv)
    \/ \E t \in Callers : AfterBare(t)
    \/ \E t \in Callers : AfterDiscover(t)
    \/ \E t \in Callers : AfterPrimary(t)
    \/ \E t \in Callers : AfterReferral(t)
    \/ \E t \in Callers : WhoisRecover(t)
    \/ \E t \in Callers : Drop(t)

NetNext(responses) ==
    \/ \E t \in Callers : RawQueryEnter(t)
    \/ \E t \in Callers, ok \in BOOLEAN : DialReturn(t, ok)
    \/ \E t \in Callers : DialSend(t)
    \/ \E t \in Callers : CtxFire(t)
    \/ \E t \in Callers, case \in {"recv", "done"} : Select(t, case)
    \/ \E t \in Callers, ok \in BOOLEAN : Write(t, ok)
    \/ \E t \in Callers, text \in responses : ReadAll(t, text)
    \/ \E t \in Callers : ReadError(t)

\* the whole program from its start, on a few inputs
Next ==
    \/ InitNext
    \/ ClientNext
    \/ WhoisNext(StartQueries, {<<>>})
    \/ NetNext(FewResponses)
    \/ Crash

Spec == Init /\ [][Next]_vars

\* the states in which every InitWhois call made so far has returned or panicked:
\* none was made, or one loaded servers.json, or one failed on missing.json and
\* its panic was recovered; client c1 was built before or after it, or not yet
QueryInit ==
    \E mode \in {"none", "ok", "failed"}, c1 \in {"unmade", "nil", "inst"} :
        /\ (c1 = "inst") => (mode # "none")
        /\ serverMapInstance = IF mode = "none" THEN "nil" ELSE "inst"
        /\ whoisServers = IF mode = "ok" THEN FileContent("servers.json").whois ELSE EmptyMap
        /\ rewriteServers = IF mode = "ok" THEN FileContent("servers.json").rewrite ELSE EmptyMap
        /\ onceDone = (mode # "none")
        /\ onceM = "free"
        /\ loadState = mode
        /\ nConstruct = IF mode = "none" THEN 0 ELSE 1
        /\ nLoad = IF mode = "none" THEN 0 ELSE 1
        /\ init = [i \in InitCallers |->
                     IF i = "i1" /\ mode # "none"
                     THEN [IdleInit EXCEPT !.outcome = IF mode = "ok" THEN "returned" ELSE "panicked"]
                     ELSE IdleInit]
        /\ clients = [c \in ClientIds |->
                        [made |-> (c = "default" \/ c1 # "unmade"),
                         serverMap |-> IF c = "default" \/ c1 = "unmade" THEN "nil" ELSE c1,
                         disableStats |-> FALSE, disableReferral |-> FALSE]]
        /\ call = [t \in Callers |-> IdleCall]
        /\ learned = EmptyMap
        /\ crashed = FALSE

\* queries against the directory as InitWhois left it
QueryNext ==
    \/ ClientNext
    \/ WhoisNext(Queries, ServerArgs)
    \/ NetNext(Responses)
    \/ Crash

QuerySpec == QueryInit /\ [][QueryNext]_vars

\* one client holding the directory loaded from servers.json, asked every short
\* query; no response names a server, so nothing is memoized
ClassifyInit ==
    /\ QueryInit
    /\ loadState = "ok"
    /\ clients["c1"].serverMap = "inst"

ClassifyNext ==
    \/ \E t \in Callers :
          /\ call[t].pc = "idle"
          /\ \E q \in AllQueries, srv \in ArinServerArgs : WhoisCall(t, "c1", q, srv)
    \/ \E t \in Callers : AfterBare(t)
    \/ \E t \in Callers : AfterDiscover(t)
    \/ \E t \in Callers : AfterPrimary(t)
    \/ \E t \in Callers : Drop(t)
    \/ NetNext(PlainResponses)

ClassifySpec == ClassifyInit /\ [][ClassifyNext]_vars

\* two goroutines share client c1, which holds the directory loaded from
\* servers.json
RaceInit ==
    /\ serverMapInstance = "inst"
    /\ whoisServers = FileContent("servers.json").whois
    /\ rewriteServers = FileContent("servers.json").rewrite
    /\ onceDone = TRUE
    /\ onceM = "free"
    /\ loadState = "ok"
    /\ nConstruct = 1
    /\ nLoad = 1
    /\ init = [i \in InitCallers |->
                 IF i = "i1" THEN [IdleInit EXCEPT !.outcome = "returned"] ELSE IdleInit]
    /\ clients = [c \in ClientIds |->
                    [made |-> TRUE, serverMap |-> IF c = "default" THEN "nil" ELSE "inst",
                     disableStats |-> FALSE, disableReferral |-> FALSE]]
    /\ call = [t \in RaceCallers |-> IdleCall]
    /\ learned = EmptyMap
    /\ crashed = FALSE

RaceNext ==
    \/ \E t \in RaceCallers, q \in FewQueries : WhoisCall(t, "c1", q, <<>>)
    \/ \E t \in RaceCallers : AfterBare(t)
    \/ \E t \in RaceCallers : AfterDiscover(t)
    \/ \E t \in RaceCallers : Drop(t)
    \/ \E t \in RaceCallers : RawQueryEnter(t)
    \/ \E t \in RaceCallers, ok \in BOOLEAN : DialReturn(t, ok)
    \/ \E t \in RaceCallers : DialSend(t)
    \/ \E t \in RaceCallers : CtxFire(t)
    \/ \E t \in RaceCallers, case \in {"recv", "done"} : Select(t, case)
    \/ \E t \in RaceCallers, ok \in BOOLEAN : Write(t, ok)
    \/ \E t \in RaceCallers, text \in PlainResponses : ReadAll(t, text)
    \/ \E t \in RaceCallers : ReadError(t)

RaceSpec == RaceInit /\ [][RaceNext]_vars

\* the whole program under the scheduler's guarantees: a goroutine that can take
\* a step takes it and the context's timer fires, while the dial and the peer
\* owe nothing
Fairness ==
    /\ WF_vars(\E t \in Callers : RawQueryEnter(t))
    /\ WF_vars(\E t \in Callers : CtxFire(t))
    /\ WF_vars(\E t \in Callers : DialSend(t))
    /\ WF_vars(\E t \in Callers, case \in {"recv", "done"} : Select(t, case))
    /\ WF_vars(\E t \in Callers, ok \in BOOLEAN : Write(t, ok))
    /\ WF_vars(\E t \in Callers : AfterBare(t))
    /\ WF_vars(\E t \in Callers : AfterDiscover(t))
    /\ WF_vars(\E t \in Callers : AfterPrimary(t))
    /\ WF_vars(\E t \in Callers : AfterReferral(t))

LiveSpec == Init /\ [][Next]_vars /\ Fairness

----------------------------------------------------------------------------
(* Properties *)

Returned(r) == r.pc = "done" /\ r.outcome = "returned"

HasOverride(servers) == Len(servers) > 0 /\ servers[1] # ""

InRawQuery(r) == r.pc \in {"select", "write", "read"}

\* C1: when the referral query of a call fails, Whois returns the primary
\* response text (trimmed, with or without the footer) and a nil error.
C1_ReferralErrorSwallowed ==
    \A t \in Callers :
        LET r == call[t]
        IN  (Returned(r) /\ r.refErr \notin {"none", "nil"}) =>
                /\ r.err = "nil"
                /\ r.result \in {TrimText(r.primary), TrimText(r.primary) \o statsFooter}

\* a Whois call starts at this step, without an override, for a dotted query
\* whose extension is in the directory its client holds
StartsCached(t) ==
    /\ call[t].pc = "idle" /\ call'[t].pc # "idle"
    /\ ~HasOverride(call'[t].servers)
    /\ Contains(Normalize(call'[t].query), ".")
    /\ clients[call'[t].client].serverMap # "nil"
    /\ getExtension(Normalize(call'[t].query)) \in DOMAIN whoisServers

\* C2: a call without an override for a dotted query whose extension is in the
\* directory calls rawQuery first for its primary query, with the memoized
\* server and port 43; every query is sent to the server and port rawQuery was
\* called with; no later query of a call is a discovery query, and no step
\* removes an extension from the directory.
C2_MemoizedServerUsed ==
    [][ /\ \A t \in Callers :
              StartsCached(t) =>
                  /\ call'[t].pc = "rawQuery"
                  /\ call'[t].sent = <<>>
                  /\ call'[t].stage = "primary"
                  /\ call'[t].arg[2] =
                        whoisServers[getExtension(Normalize(call'[t].query))]
                  /\ call'[t].arg[3] = defaultWhoisPort
        /\ \A t \in Callers :
              (Len(call'[t].sent) = Len(call[t].sent) + 1) =>
                  /\ call[t].pc = "rawQuery"
                  /\ call'[t].sent[Len(call'[t].sent)].stage = call[t].stage
                  /\ call'[t].sent[Len(call'[t].sent)].server = call[t].arg[2]
                  /\ call'[t].sent[Len(call'[t].sent)].port = call[t].arg[3]
        /\ \A t \in Callers :
              (call[t].sent # <<>> /\ Len(call'[t].sent) = Len(call[t].sent) + 1) =>
                  call'[t].sent[Len(call'[t].sent)].stage # "discover"
        /\ \A e \in DOMAIN whoisServers : e \in DOMAIN whoisServers'
      ]_vars

\* C2 witness: a call found the extension an earlier discovery memoized and has
\* sent its primary query to that server
C2_Witness ==
    \E t \in Callers :
        /\ call[t].pc = "select"
        /\ call[t].ext \in DOMAIN learned
        /\ call[t].nGet = 1 /\ call[t].nSet = 0
        /\ Len(call[t].sent) = 1
        /\ call[t].sent[1].server = whoisServers[call[t].ext]

\* C3: a call with a non-empty explicit server looks no extension up, sends no
\* discovery query and writes nothing to the directory; unless the query is
\* a bare label, its first query goes to the lower-cased override on port 43.
C3_OverrideSkipsDirectory ==
    \A t \in Callers :
        LET r == call[t]
            n == Normalize(r.query)
        IN  (r.pc # "idle" /\ HasOverride(r.servers)) =>
                /\ r.nGet = 0
                /\ r.nSet = 0
                /\ \A k \in 1..Len(r.sent) : r.sent[k].stage # "discover"
                /\ (Contains(n, ".") /\ r.sent # <<>>) =>
                      /\ r.sent[1].stage = "primary"
                      /\ r.sent[1].server = ToLowerServer(r.servers[1])
                      /\ r.sent[1].port = defaultWhoisPort

\* C3 witness: a call with an override returned after its primary query
C3_Witness ==
    \E t \in Callers :
        /\ Returned(call[t]) /\ HasOverride(call[t].servers)
        /\ call[t].err = "nil"
        /\ Len(call[t].sent) >= 1
        /\ call[t].sent[1].server = "whois.nic.xy"
        /\ getExtension(Normalize(call[t].query)) \notin DOMAIN whoisServers

\* the normalized query has no dot and no colon and is no ASN
BareQuery(q) ==
    LET n == Normalize(q)
    IN  n # <<>> /\ ~Contains(n, ".") /\ ~Contains(n, ":") /\ ~IsASN(n)

\* the address a query for the root server is dialed at: the rewrite table's
\* substitute for whois.iana.org when it holds one, on the port passed
RootAddress ==
    <<IF defaultWhoisServer \in DOMAIN rewriteServers
      THEN rewriteServers[defaultWhoisServer]
      ELSE defaultWhoisServer,
      defaultWhoisPort>>

\* C4 as stated: a call for a bare label consults nothing of the directory, its
\* rewrite table included, makes no second query, and once it has ended it has
\* made exactly one transport call, dialed at whois.iana.org on port 43.
C4_BareLabelRootOnly ==
    \A t \in Callers :
        LET r == call[t]
        IN  (r.pc # "idle" /\ BareQuery(r.query)) =>
                /\ r.nGet = 0 /\ r.nSet = 0 /\ r.nRewrite = 0
                /\ Len(r.sent) <= 1
                /\ \A k \in 1..Len(r.sent) :
                      /\ r.sent[k].stage = "bare"
                      /\ r.sent[k].addr = <<defaultWhoisServer, defaultWhoisPort>>
                /\ r.pc = "done" => Len(r.sent) = 1

\* C4 amended: a call for a bare label on a client that holds a directory
\* looks no extension up and memoizes nothing, and makes one rawQuery call, for
\* whois.iana.org on port 43 with the normalized query as its line, and no
\* referral query, whatever the response holds; that rawQuery call reads the
\* directory's rewrite table once, and the address it dials is the table's
\* substitute for whois.iana.org at that moment (whois.iana.org itself when
\* the table holds none) on port 43. When the call has ended it has returned
\* after exactly one transport call.
C4_BareLabelOneRawQuery ==
    [][\A t \in Callers :
          LET r == call'[t]
          IN  (r.pc # "idle" /\ BareQuery(r.query) /\ ~NilMap(r.client)) =>
                  /\ r.nGet = 0 /\ r.nSet = 0
                  /\ r.nRewrite <= 1
                  /\ Len(r.sent) = r.nRewrite
                  /\ \A k \in 1..Len(r.sent) :
                        /\ r.sent[k].stage = "bare"
                        /\ r.sent[k].server = defaultWhoisServer
                        /\ r.sent[k].port = defaultWhoisPort
                        /\ r.sent[k].line = Normalize(r.query)
                  /\ (Len(r.sent) = 1 /\ call[t].sent = <<>>) =>
                        r.sent[1].addr = RootAddress
                  /\ (Len(r.sent) = 1 /\ call[t].sent # <<>>) =>
                        r.sent = call[t].sent
                  /\ r.pc = "done" => (Returned(r) /\ Len(r.sent) = 1)
      ]_vars

\* C4 witness: a bare-label call returned a response that names a server,
\* after one query for whois.iana.org that was dialed at the rewrite table's
\* substitute
C4_Witness ==
    \E t \in Callers :
        /\ Returned(call[t]) /\ BareQuery(call[t].query)
        /\ call[t].err = "nil"
        /\ getServer(call[t].result)[1] # ""
        /\ Len(call[t].sent) = 1
        /\ call[t].nRewrite = 1
        /\ call[t].sent[1].server = defaultWhoisServer
        /\ call[t].sent[1].addr = <<"alt.iana.org", defaultWhoisPort>>

\* C5 as stated: no call makes more than two round trips.
C5_AtMostTwoRoundTrips ==
    \A t \in Callers : Len(call[t].sent) <= 2

\* C5 amended: a call makes at most two round trips when its server comes from
\* the override or the directory, and at most three (discovery, primary and
\* referral) when the extension is not in the directory.
C5_AtMostThreeRoundTrips ==
    \A t \in Callers :
        LET r == call[t]
        IN  /\ Len(r.sent) <= 3
            /\ (r.sent # <<>> /\ r.sent[1].stage # "discover") => Len(r.sent) <= 2
            /\ \A k \in 2..Len(r.sent) :
                  r.sent[k].stage = (IF r.sent[k - 1].stage = "discover"
                                     THEN "primary" ELSE "referral")

\* C5 witness: a call returned after a discovery, a primary and a referral query
C5_Witness ==
    \E t \in Callers :
        /\ Returned(call[t])
        /\ Len(call[t].sent) = 3
        /\ call[t].sent[3].stage = "referral"

\* C6: every rawQuery call eventually returns (or the process has died).
C6_RawQueryReturns ==
    \A t \in Callers :
        InRawQuery(call[t]) ~> (~InRawQuery(call[t]) \/ crashed)

\* dialContext returns at this step
LeavesSelect(t) == call[t].pc = "select" /\ call'[t].pc # "select"

CtxErrorReturned(r) ==
    r.pc = "ret" /\ r.rerr = "connect failed: context deadline exceeded"

DialOutcomeReturned(old, r) ==
    IF old.ch = "conn"
    THEN r.pc = "write"
    ELSE r.pc = "ret" /\ r.rerr = "connect failed: dial error"

\* C7 as stated: whichever of the deadline and the dial happened first decides
\* what dialContext returns.
C7_FirstDecides ==
    [][ \A t \in Callers :
            LeavesSelect(t) =>
                /\ (call[t].first = "ctx") => CtxErrorReturned(call'[t])
                /\ (call[t].first = "dial") => DialOutcomeReturned(call[t], call'[t])
      ]_vars

\* C7 amended: what is ready when the select statement runs decides: with only
\* the context done, dialContext returns nil and the context's error and leaves
\* the dial running; with only the dial done, its connection or error; with
\* both, one of the two.
C7_ReadyDecides ==
    [][ \A t \in Callers :
            LeavesSelect(t) =>
                /\ (call[t].ctxDone /\ call[t].ch = "empty") =>
                      /\ CtxErrorReturned(call'[t])
                      /\ call'[t].g = call[t].g
                /\ (~call[t].ctxDone /\ call[t].ch # "empty") =>
                      DialOutcomeReturned(call[t], call'[t])
                /\ (call[t].ctxDone /\ call[t].ch # "empty") =>
                      \/ CtxErrorReturned(call'[t])
                      \/ DialOutcomeReturned(call[t], call'[t])
      ]_vars

\* C7 witness: dialContext returned the context's error while the dial is
\* still running
C7_Witness ==
    \E t \in Callers :
        /\ CtxErrorReturned(call[t])
        /\ call[t].g = "dialing"

\* C8: the directory is constructed and loaded at most once, and whoever has
\* returned from InitWhois did so after the one initializer ran to its end.
C8_InitOnce ==
    /\ nConstruct <= 1
    /\ nLoad <= 1
    /\ \A i \in InitCallers :
          init[i].outcome = "returned" =>
              /\ nConstruct = 1 /\ nLoad = 1
              /\ loadState \in {"ok", "failed"}
              /\ onceDone

\* C8 witness: every caller has returned from InitWhois, after one load
C8_Witness ==
    /\ \A i \in InitCallers : init[i].outcome = "returned"
    /\ nLoad = 1 /\ loadState = "ok"

\* C9: when the load failed, no caller returns from InitWhois normally.
C9_FailureSurfaced ==
    loadState = "failed" => \A i \in InitCallers : init[i].outcome # "returned"

\* C10: a Whois call that starts after InitWhois completed successfully is on
\* a client that holds the initialized directory, and does not panic on nil.
C10_EveryClientSharesDirectory ==
    [][ \A t \in Callers :
            (/\ loadState = "ok" /\ onceDone
             /\ call[t].pc = "idle" /\ call'[t].pc # "idle") =>
                /\ clients[call'[t].client].serverMap = serverMapInstance
                /\ call'[t].pc # "panicked"
      ]_vars

\* the call is between its first and its last statement
InFlight(r) == r.pc \notin {"idle", "done"}

\* C11: Whois calls that run at the same time on one client write no field of
\* the Client: no two of them have written the same field.
C11_NoClientWriteConflict ==
    \A t1, t2 \in RaceCallers :
        (/\ t1 # t2
         /\ InFlight(call[t1]) /\ InFlight(call[t2])
         /\ call[t1].client = call[t2].client) =>
            call[t1].wrote \cap call[t2].wrote = {}

\* the number of an ASN query, without the prefix it may carry
ASNumber(n) ==
    IF HasPrefix(ToUpper(n), asnPrefix) THEN SubSeq(n, Len(asnPrefix) + 1, Len(n)) ELSE n

\* C12: for an ASN query, with the prefix in any case or without it, every
\* primary and referral query line is the one of "AS" followed by the number.
C12_ASNCanonicalLine ==
    \A t \in Callers :
        LET r == call[t]
            n == Normalize(r.query)
        IN  (r.pc # "idle" /\ IsASN(n)) =>
                \A k \in 1..Len(r.sent) :
                    r.sent[k].stage \in {"primary", "referral"} =>
                        r.sent[k].line = QueryLine(asnPrefix \o ASNumber(n), r.sent[k].server)

\* whitespace and the dot
Blank == Spaces \cup {"."}

\* C13: the query Whois classifies neither begins nor ends with whitespace or
\* a dot, and Whois returns the empty-query error exactly when the input
\* consists only of whitespace and dots.
C13_NormalizedClean ==
    \A t \in Callers :
        LET r == call[t]
        IN  r.pc # "idle" =>
                /\ r.domain # <<>> =>
                      (r.domain[1] \notin Blank /\ r.domain[Len(r.domain)] \notin Blank)
                /\ (r.path = "empty") <=> (\A i \in 1..Len(r.query) : r.query[i] \in Blank)
                /\ (r.path = "empty") => (Returned(r) /\ r.err = "ErrDomainEmpty")

\* the query text a call handed to rawQuery at a stage
QueryText(r, stage) == IF stage = "discover" THEN r.ext ELSE r.domain

\* C14: the server as resolved, before the rewrite table, decides the ARIN
\* form: a query to whois.arin.net goes out as "a + " (ASN) or "n + " and the
\* query, wherever it is dialed; a query to any other server goes out as it
\* is, also when that server is dialed at whois.arin.net.
C14_ArinBeforeRewrite ==
    \A t \in Callers :
        \A k \in 1..Len(call[t].sent) :
            LET e == call[t].sent[k]
                q == QueryText(call[t], e.stage)
            IN  /\ e.addr = <<(IF e.server \in DOMAIN rewriteServers
                                THEN rewriteServers[e.server] ELSE e.server), e.port>>
                /\ e.line = IF e.server # "whois.arin.net" THEN q
                            ELSE IF IsASN(q) THEN <<"a", " ", "+", " ">> \o q
                            ELSE <<"n", " ", "+", " ">> \o q

\* C14 witness: a call has written the ARIN form of an ASN query to the
\* connection dialed at the substitute of whois.arin.net
C14_Witness ==
    \E t \in Callers :
        /\ call[t].pc = "read"
        /\ \E k \in 1..Len(call[t].sent) :
              /\ call[t].sent[k].server = "whois.arin.net"
              /\ call[t].sent[k].addr[1] = "alt.arin.net"
              /\ call[t].sent[k].line = <<"a", " ", "+", " ", "A", "S", "1">>

\* Whois calls rawQuery for a referral query at this step
CallsReferral(t) ==
    /\ call[t].pc # "rawQuery"
    /\ call'[t].pc = "rawQuery" /\ call'[t].stage = "referral"

\* the call sends one more query at this step, and it is a referral query
SendsReferral(t) ==
    /\ Len(call'[t].sent) = Len(call[t].sent) + 1
    /\ call'[t].sent[Len(call'[t].sent)].stage = "referral"

\* C15: rawQuery is called for a referral query only right after a primary
\* query that succeeded, with referrals enabled, for the server its response
\* names, which is not empty and not the server the primary query went to; a
\* referral query is sent only by that call of rawQuery, to that server; and when
\* the referral query has returned, Whois returns without another query.
C15_OneReferralHop ==
    [][ \A t \in Callers :
            LET r == call[t]
                ref == getServer(r.rres)
            IN  /\ CallsReferral(t) =>
                      /\ r.pc = "ret" /\ r.stage = "primary" /\ r.rerr = "nil"
                      /\ ~clients[r.client].disableReferral
                      /\ ref[1] # "" /\ ref[1] # r.sent[Len(r.sent)].server
                      /\ call'[t].arg = <<r.domain, ref[1], ref[2]>>
                      /\ call'[t].sent = r.sent
                /\ SendsReferral(t) =>
                      /\ r.pc = "rawQuery" /\ r.stage = "referral"
                      /\ call'[t].sent[Len(call'[t].sent)].server = r.arg[2]
                      /\ call'[t].sent[Len(call'[t].sent)].port = r.arg[3]
                      /\ r.sent[Len(r.sent)].stage = "primary"
                /\ (r.pc = "ret" /\ r.stage = "referral" /\ call'[t].pc # "ret") =>
                      (Returned(call'[t]) /\ call'[t].sent = r.sent)
      ]_vars

\* C15 witness: the referral query has returned a response that names yet
\* another server
C15_Witness ==
    \E t \in Callers :
        LET r == call[t]
        IN  /\ r.pc = "ret" /\ r.stage = "referral" /\ r.rerr = "nil"
            /\ getServer(r.rres)[1] \notin {"", r.sent[Len(r.sent)].server}

\* no line of the text carries one of the marker tokens
NoServerToken(data) == \A i \in 1..Len(data) : \A k \in 1..Len(tokens) : data[i].tok # tokens[k]

\* C16: when the discovery query has failed, or its response carries no server
\* token, Whois returns an error (server-not-found in the second case) and no
\* text, sends no further query and leaves both tables of the directory as
\* they are.
C16_DiscoveryFailure ==
    [][ \A t \in Callers :
            LET r == call[t]
            IN  (/\ r.pc = "ret" /\ r.stage = "discover" /\ call'[t].pc # "ret"
                 /\ (r.rerr # "nil" \/ NoServerToken(r.rres))) =>
                    /\ Returned(call'[t])
                    /\ call'[t].err # "nil"
                    /\ (r.rerr = "nil") => (call'[t].err = "ErrWhoisServerNotFound")
                    /\ call'[t].result = <<>>
                    /\ call'[t].sent = r.sent
                    /\ call'[t].nSet = 0
                    /\ whoisServers' = whoisServers
                    /\ rewriteServers' = rewriteServers
      ]_vars

\* C16 witness: a call returned server-not-found after its discovery query,
\* the only query it sent, and its extension is not in the directory
C16_Witness ==
    \E t \in Callers :
        LET r == call[t]
        IN  /\ Returned(r) /\ r.err = "ErrWhoisServerNotFound"
            /\ Len(r.sent) = 1 /\ r.sent[1].stage = "discover"
            /\ r.ext \notin DOMAIN whoisServers

\* C17: a connection the goroutine sends after dialContext has returned on
\* cancellation is placed in the channel, and a connection left in the channel
\* of a dialContext that has returned stays there: the caller never holds it,
\* and the only other step is the next dialContext, which makes its own channel.
C17_LateConnectionLeaks ==
    [][ \A t \in Callers :
            LET r == call[t]
            IN  /\ (r.g = "sendConn" /\ r.pc # "select" /\ call'[t].g = "done") =>
                      call'[t].ch = "conn"
                /\ (r.ch = "conn" /\ r.pc # "select") =>
                      \/ call'[t].ch = "conn" /\ call'[t].pc \notin {"select", "write", "read"}
                      \/ call'[t].ch = "empty" /\ call'[t].pc = "select" /\ call'[t].g = "dialing"
      ]_vars

\* C17 witness: dialContext returned the cancellation error and the connection
\* of the dial that succeeded is in the channel
C17_Witness ==
    \E t \in Callers :
        /\ CtxErrorReturned(call[t])
        /\ call[t].g = "done" /\ call[t].ch = "conn"

\* whenever the goroutine stands at its send the channel's slot is free, and
\* whatever is in the channel was put there by the one send of a goroutine
\* that has ended
SendNeverBlocks ==
    \A t \in Callers :
        /\ Sending(call[t]) => CanSend(call[t])
        /\ call[t].ch # "empty" => call[t].g = "done"

\* C20: the goroutine never blocks on its one send, whether dialContext still
\* waits or has returned on cancellation, and so once the dial has returned
\* the goroutine ends (or the process has died).
C20_GoroutineTerminates ==
    /\ []SendNeverBlocks
    /\ \A t \in Callers : Sending(call[t]) ~> (~Sending(call[t]) \/ crashed)

\* C20 witness: the goroutine has sent and ended after dialContext returned the
\* cancellation error, and the outcome it sent is a failed dial
C20_Witness ==
    \E t \in Callers :
        /\ CtxErrorReturned(call[t])
        /\ call[t].g = "done" /\ call[t].ch = "nil"

\* C18: a call that finds its extension in the directory, memoized by an
\* earlier call's discovery, sends its primary query to the host and port that
\* earlier call sent its primary query to.
C18_CachedSameAddress ==
    \A t \in Callers :
        LET r == call[t]
        IN  (r.path = "cached" /\ r.ext \in DOMAIN learned /\ r.sent # <<>>) =>
                r.sent[1].addr = learned[r.ext]

\* C19: whenever Whois returns an error it returns the empty text with it.
C19_ErrorMeansEmptyResult ==
    \A t \in Callers :
        (Returned(call[t]) /\ call[t].err # "nil") => call[t].result = <<>>

====
